---------------------------- MODULE Spec2Model ----------------------------
(***************************************************************************)
(* Model of src/app.py: the zoning permission table, the market-potential  *)
(* score, the financial summary of a business and the button handler that  *)
(* chains the lookups, the scoring loop and the selection of the best      *)
(* records.                                                                *)
(*                                                                         *)
(* Numbers.  Python floats are modelled as exact rationals <<n, d>> with   *)
(* d > 0, kept in lowest terms; binary rounding error of the float         *)
(* arithmetic is not modelled (a value lying exactly on a rounding tie of  *)
(* a formatted field, such as a market score of 0.575, may be displayed    *)
(* one unit of the last place apart from what Python prints).              *)
(* Python's None is the empty sequence and a                               *)
(* number v used where None is possible is <<v>>.  The Japanese labels of  *)
(* the source (zoning categories, record keys, display names) are written  *)
(* in romanised ASCII.                                                     *)
(***************************************************************************)
EXTENDS Integers, Sequences, FiniteSets, TLC

VARIABLES
    pc,                 \* position of the script / button handler
    addr_kamakura,      \* "Kamakura" in addr                  (line 195, 231)
    initial_investment, \* st.number_input                     (line 196)
    area_size,          \* st.number_input                     (line 197)
    coordinates,        \* result of get_coordinates_from_address
    use_area_ja,        \* result of get_use_area_ja
    allowed_buildings,  \* result of check_building_permissions
    population,         \* result of get_PT0_values
    distance,           \* result of get_nearest_station_distance
    market_factors,     \* MarketFactors built at lines 232-239
    results,            \* list of summary dicts               (line 303)
    loop_i,             \* index of the for loop of line 304
    best_profit,        \* index in results of the record max() returned
    best_payback,       \* index in results of the record min() returned
    messages,           \* st.error / st.success / st.warning calls, in order
    exception,          \* uncaught exception that ended the run, or "none"
    call,               \* arguments of a direct call of a function or method
    ret                 \* what that call returned or raised

vars == <<pc, addr_kamakura, initial_investment, area_size, coordinates,
          use_area_ja, allowed_buildings, population, distance,
          market_factors, results, loop_i, best_profit, best_payback,
          messages, exception, call, ret>>

flow_vars == <<pc, addr_kamakura, initial_investment, area_size, coordinates,
               use_area_ja, allowed_buildings, population, distance,
               market_factors, results, loop_i, best_profit, best_payback,
               messages, exception>>

---------------------------------------------------------------------------
(* Python values *)

None == <<>>

Num(v) == <<v>>

\* dict.get(key, default)
Get(d, key, default) == IF key \in DOMAIN d THEN d[key] ELSE default

\* the outcome of a call: a returned value, or the exception it raised
Returned(v) == [exc |-> "none", val |-> v]

Raised(e) == [exc |-> e, val |-> <<0, 1>>]

---------------------------------------------------------------------------
(* Exact rational arithmetic standing for float arithmetic *)

Abs(n) == IF n < 0 THEN -n ELSE n

RECURSIVE GCD(_, _)
GCD(a, b) == IF b = 0 THEN a ELSE GCD(b, a % b)

\* n/d in lowest terms with a positive denominator (d # 0)
Rat(n, d) ==
    LET g == GCD(Abs(n), Abs(d))
        s == IF d < 0 THEN -1 ELSE 1
    IN  <<(s * n) \div g, Abs(d) \div g>>

RatAdd(a, b) == Rat(a[1] * b[2] + b[1] * a[2], a[2] * b[2])

RatMul(a, b) ==
    LET x == Rat(a[1], b[2])
        y == Rat(b[1], a[2])
    IN  Rat(x[1] * y[1], x[2] * y[2])

RatSub(a, b) == RatAdd(a, <<-b[1], b[2]>>)

RatLeq(a, b) == a[1] * b[2] <= b[1] * a[2]

RatLess(a, b) == a[1] * b[2] < b[1] * a[2]

RatMax(a, b) == IF RatLess(a, b) THEN b ELSE a

RatMin(a, b) == IF RatLess(b, a) THEN b ELSE a

RatInt(k) == <<k, 1>>

\* a decimal literal with two places, such as 0.25
Dec(hundredths) == Rat(hundredths, 100)

\* floor(a * n / d) for d > 0, computed without forming a * n
FloorMulDiv(a, n, d) == (a \div d) * n + ((a % d) * n) \div d

\* the fractional part of a * n / d is zero
ExactMulDiv(a, n, d) == ((a % d) * n) % d = 0

---------------------------------------------------------------------------
(* check_building_permissions, lines 59-74 *)

\* float('inf') as a maximum floor area
inf == -1

\* area_size <= max_size, where max_size may be float('inf')
SizeLeq(size, max_size) == max_size = inf \/ size <= max_size

\* area_size < max_size: the bound made exclusive
SizeLess(size, max_size) == max_size = inf \/ size < max_size

\* one row of the table, in the insertion order of the dict literal
Row(cafe, shareAtelier, accommodation) ==
    << <<"cafe", cafe>>, <<"shareAtelier", shareAtelier>>,
       <<"accommodation", accommodation>> >>

permissions ==
    [ dai1shu_teiso_jukyo_senyo     |-> Row(150, 150, 0),
      dai2shu_teiso_jukyo_senyo     |-> Row(150, 0, 0),
      dai1shu_chukoso_jukyo_senyo   |-> Row(500, 150, 0),
      dai2shu_chukoso_jukyo_senyo   |-> Row(1500, 150, 0),
      dai1shu_jukyo                 |-> Row(3000, 3000, 3000),
      dai2shu_jukyo                 |-> Row(10000, 3000, 10000),
      jun_jukyo                     |-> Row(10000, 3000, 0),
      kinrin_shogyo                 |-> Row(inf, inf, inf),
      shogyo                        |-> Row(inf, inf, inf),
      jun_kogyo                     |-> Row(inf, inf, inf),
      kogyo                         |-> Row(inf, inf, 0),
      kogyo_senyo                   |-> Row(0, inf, 0) ]

\* the names of the entries of a row, order kept
Names(row) == [i \in 1..Len(row) |-> row[i][1]]

check_building_permissions_exclusive(youto_chiiki, area_size_) ==
    LET row == Get(permissions, youto_chiiki, <<>>)
    IN  Names(SelectSeq(row, LAMBDA e : SizeLess(area_size_, e[2])))

check_building_permissions(youto_chiiki, area_size_) ==
    LET row == Get(permissions, youto_chiiki, <<>>)
    IN  Names(SelectSeq(row, LAMBDA e : SizeLeq(area_size_, e[2])))

---------------------------------------------------------------------------
(* MarketFactors and MarketPotentialCalculator, lines 108-152 *)

\* factors is the dict as a sequence of <<name, value>> in insertion order
MarketFactors(area_type, factors, epsilon) ==
    [area_type |-> area_type, factors |-> factors, epsilon |-> epsilon]

FACTOR_RANGES ==
    [ kamakura |-> [population |-> 5000, distance_from_station |-> 3200],
      hayama   |-> [population |-> 2500, distance_from_station |-> 3200],
      zushi    |-> [population |-> 3000, distance_from_station |-> 3200] ]

Weights(population_, distance_from_station_) ==
    [population |-> Dec(population_),
     distance_from_station |-> Dec(distance_from_station_)]

WEIGHTS ==
    [ kamakura |-> [ cafe          |-> Weights(40, 20),
                     accommodation |-> Weights(20, 20),
                     shareAtelier  |-> Weights(25, 25) ],
      hayama   |-> [ cafe          |-> Weights(20, 20),
                     accommodation |-> Weights(40, 10),
                     shareAtelier  |-> Weights(25, 25) ],
      zushi    |-> [ cafe          |-> Weights(20, 20),
                     accommodation |-> Weights(40, 10),
                     shareAtelier  |-> Weights(25, 25) ] ]

\* the clamps of lines 145-146 left out
normalize_factor_unclamped(area_type, factor_name, value) ==
    IF area_type \notin DOMAIN FACTOR_RANGES THEN Raised("KeyError")
    ELSE LET max_val == Get(FACTOR_RANGES[area_type], factor_name, 0)
         IN  IF value = None THEN Raised("TypeError")
             ELSE IF max_val = 0 THEN Raised("ZeroDivisionError")
             ELSE IF factor_name = "distance_from_station"
                  THEN Returned(RatSub(RatInt(1), Rat(value[1], max_val)))
                  ELSE Returned(Rat(value[1], max_val))

\* value is None or <<v>>
normalize_factor(area_type, factor_name, value) ==
    IF area_type \notin DOMAIN FACTOR_RANGES THEN Raised("KeyError")
    ELSE LET max_val == Get(FACTOR_RANGES[area_type], factor_name, 0)
         IN  IF value = None
             THEN Raised("TypeError")   \* None < max_val, None / max_val
             ELSE IF factor_name = "distance_from_station"
                  THEN IF value[1] < max_val
                       THEN IF max_val = 0
                            THEN Raised("ZeroDivisionError")
                            ELSE Returned(RatMax(RatInt(0),
                                     RatSub(RatInt(1), Rat(value[1], max_val))))
                       ELSE Returned(RatInt(0))
                  ELSE IF max_val = 0
                       THEN Raised("ZeroDivisionError")
                       ELSE Returned(RatMin(RatInt(1), Rat(value[1], max_val)))

\* sum(weights.get(f, 0) * _normalize_factor(area_type, f, v) for f, v in items),
\* the items taken from the k-th on, acc the sum so far
RECURSIVE WeightedSum(_, _, _, _, _)
WeightedSum(area_type, weights, items, k, acc) ==
    IF k > Len(items) THEN Returned(acc)
    ELSE LET f == items[k][1]
             n == normalize_factor(area_type, f, items[k][2])
         IN  IF n.exc # "none" THEN n
             ELSE WeightedSum(area_type, weights, items, k + 1,
                      RatAdd(acc, RatMul(Get(weights, f, RatInt(0)), n.val)))

\* the weights left out of the sum
calculate_unweighted(factors, business_type) ==
    IF factors.area_type \notin DOMAIN WEIGHTS THEN Raised("KeyError")
    ELSE LET weighted_sum == WeightedSum(factors.area_type,
                                 [f \in {"population", "distance_from_station"}
                                     |-> RatInt(1)],
                                 factors.factors, 1, RatInt(0))
         IN  IF weighted_sum.exc # "none" THEN weighted_sum
             ELSE Returned(RatAdd(weighted_sum.val, factors.epsilon))

calculate(factors, business_type) ==
    IF factors.area_type \notin DOMAIN WEIGHTS THEN Raised("KeyError")
    ELSE LET weights == Get(WEIGHTS[factors.area_type], business_type, <<>>)
             weighted_sum == WeightedSum(factors.area_type, weights,
                                 factors.factors, 1, RatInt(0))
         IN  IF weighted_sum.exc # "none" THEN weighted_sum
             ELSE Returned(RatAdd(weighted_sum.val, factors.epsilon))

---------------------------------------------------------------------------
(* Business, lines 154-186 *)

Business(name, initial_investment_, users, unit_price, other_revenue, costs) ==
    [name |-> name, initial_investment |-> initial_investment_,
     users |-> users, unit_price |-> unit_price,
     other_revenue |-> other_revenue, costs |-> costs]

\* int(x) of the exact value x = a * n / d + k: truncation toward zero
IntOf(a, n, d, k) ==
    LET floor == FloorMulDiv(a, n, d) + k
    IN  IF floor >= 0 \/ ExactMulDiv(a, n, d) THEN floor ELSE floor + 1

\* round() in place of int()
calc_monthly_revenue_rounded(self, market_score) ==
    LET a == self.users * self.unit_price
        n == market_score[1]
        d == market_score[2]
    IN  FloorMulDiv(a, n, d) + self.other_revenue
          + (IF 2 * (((a % d) * n) % d) >= d THEN 1 ELSE 0)

calc_monthly_revenue(self, market_score) ==
    IntOf(self.users * self.unit_price, market_score[1], market_score[2],
          self.other_revenue)

\* sum(d.values()) of a dict given as a sequence of <<key, value>>, from the
\* k-th item on
RECURSIVE SumValues(_, _)
SumValues(d, k) ==
    IF k > Len(d) THEN 0 ELSE d[k][2] + SumValues(d, k + 1)

calc_monthly_cost(self) == SumValues(self.costs, 1)

\* a float that may be float('inf')
Finite(q) == [inf |-> FALSE, q |-> q]

Infinite == [inf |-> TRUE, q |-> <<0, 1>>]

\* f"{x:.1f}" (scale 10) and f"{x:.2f}" (scale 100): the text is the sign and
\* the digits of x rounded half-to-even at that place, or "inf"
FormatFixed(x, scale) ==
    IF x.inf THEN [inf |-> TRUE, neg |-> FALSE, digits |-> 0]
    ELSE LET a == Abs(x.q[1])
             d == x.q[2]
             whole == FloorMulDiv(a, scale, d)
             rem2 == 2 * (((a % d) * scale) % d)
             up == rem2 > d \/ (rem2 = d /\ whole % 2 = 1)
         IN  [inf |-> FALSE, neg |-> x.q[1] < 0,
              digits |-> IF up THEN whole + 1 ELSE whole]

\* float(text) of a text FormatFixed wrote, in units of the last place
ParseFloat(text) ==
    [inf |-> text.inf, v |-> IF text.neg THEN -text.digits ELSE text.digits]

\* a < b on parsed floats
FloatLess(a, b) == ~a.inf /\ (b.inf \/ a.v < b.v)

\* line 174
profit_ratio_of(monthly_profit, monthly_cost) ==
    IF monthly_cost # 0
    THEN Finite(Rat(monthly_profit * 100, monthly_cost))
    ELSE Finite(RatInt(0))

\* line 175
payback_period_of(initial_investment_, monthly_profit) ==
    IF monthly_profit # 0
    THEN Finite(Rat(initial_investment_, monthly_profit * 12))
    ELSE Infinite

\* the integers are formatted with thousands separators, which loses nothing:
\* they are kept as integers
summary_dict(self, market_score) ==
    LET monthly_revenue == calc_monthly_revenue(self, market_score)
        monthly_cost == calc_monthly_cost(self)
        monthly_profit == monthly_revenue - monthly_cost
        profit_ratio == profit_ratio_of(monthly_profit, monthly_cost)
        payback_period == payback_period_of(self.initial_investment,
                                            monthly_profit)
    IN  [name            |-> self.name,
         shijo_score     |-> FormatFixed(Finite(market_score), 100),
         shoki_toshigaku |-> self.initial_investment,
         gekkan_uriage   |-> monthly_revenue,
         gekkan_keihi    |-> monthly_cost,
         gekkan_rieki    |-> monthly_profit,
         shuekiritsu     |-> FormatFixed(profit_ratio, 10),
         kaishu_kikan    |-> FormatFixed(payback_period, 100)]

---------------------------------------------------------------------------
(* Selection of the best records, lines 309-316 *)

\* max(seq, key): the index of the first element with the largest key
RECURSIVE FirstMax(_, _, _)
FirstMax(keys, k, best) ==
    IF k > Len(keys) THEN best
    ELSE FirstMax(keys, k + 1,
                  IF FloatLess(keys[best], keys[k]) THEN k ELSE best)

\* min(seq, key): the index of the first element with the smallest key
RECURSIVE FirstMin(_, _, _)
FirstMin(keys, k, best) ==
    IF k > Len(keys) THEN best
    ELSE FirstMin(keys, k + 1,
                  IF FloatLess(keys[k], keys[best]) THEN k ELSE best)

\* line 309, for a non-empty list
max_by_profit(rs) ==
    FirstMax([i \in 1..Len(rs) |-> ParseFloat(rs[i].shuekiritsu)], 1, 1)

\* line 310, for a non-empty list
min_by_payback(rs) ==
    FirstMin([i \in 1..Len(rs) |-> ParseFloat(rs[i].kaishu_kikan)], 1, 1)

\* the comparison inverted: != written for ==
same_dict_inverted(a, b) == a # b

\* best_profit == best_payback at line 316: equality of two dicts
same_dict(a, b) == a = b

---------------------------------------------------------------------------
(* The script: widgets (lines 194-197) and the button handler (201-333) *)

\* st.number_input of line 196: min_value, value, max_value
InvestmentMin == 1000000

InvestmentDefault == 25000000

InvestmentMax == 100000000

\* st.number_input of line 197: min_value, max_value, value, step
AreaSizeMin == 50

AreaSizeMax == 10000

AreaSizeDefault == 2000

AreaSizeStep == 50

\* epsilon=0.5 of line 238, in hundredths
FlowEpsilon == 50

\* other_revenue of line 243
other_revenue_ == 100000

\* line 231: "kamakura" if "Kamakura" in addr else "hayama"
area_type_misspelt(in_kamakura) == IF in_kamakura THEN "kamakura" ELSE "hayma"

area_type_of(in_kamakura) == IF in_kamakura THEN "kamakura" ELSE "hayama"

\* the keys of every costs dict of lines 252-262, 270-280, 288-298, in order
CostKeys ==
    <<"jinkenhi", "suido_konetsuhi", "tsushinhi", "seisohi", "shomohinhi",
      "hokenryo", "shuzenhi", "chidai_yachin", "sonota_keihi">>

\* a costs dict: the amounts given in the order of the keys
Costs(amounts) == [i \in 1..Len(CostKeys) |-> <<CostKeys[i], amounts[i]>>]

\* lines 245-300
businesses(initial_investment_) ==
    [ cafe |-> Business("kafe", initial_investment_, 2000, 1500, other_revenue_,
          Costs(<<1000000, 50000, 6000, 70000, 100000, 5000, 0, 150000, 821500>>)),
      accommodation |-> Business("shukuhaku_shisetsu", initial_investment_, 60,
          75000, other_revenue_,
          Costs(<<2000000, 50000, 6000, 100000, 700000, 2000, 0, 200000, 192000>>)),
      shareAtelier |-> Business("share_atelier", initial_investment_, 30,
          75000, other_revenue_,
          Costs(<<1000000, 30000, 6000, 100000, 50000, 2000, 0, 100000, 100000>>)) ]

\* Bounds of the inputs the environment supplies
MaxPopSteps == 5

MaxDistSteps == 5

\* the population values a lookup may return: multiples of a quarter of the
\* kamakura reference (half of the hayama one)
PopStep == FACTOR_RANGES["hayama"]["population"] \div 2

Populations == {k * PopStep : k \in 0..MaxPopSteps}

\* the distances the station lookup may return: quarters of the reference
DistStep == FACTOR_RANGES["kamakura"]["distance_from_station"] \div 4

Distances == {k * DistStep : k \in 0..MaxDistSteps}

Investments == {InvestmentMin, InvestmentDefault, InvestmentMax}

\* the finite maxima of the permission table
Thresholds ==
    {permissions[c][i][2] : c \in DOMAIN permissions, i \in 1..3} \ {inf}

\* floor areas the widget can hold: its ends, its default, and each threshold
\* of the table with the next step above it
AreaSizes ==
    {a \in {AreaSizeMin, AreaSizeDefault, AreaSizeMax}
           \cup Thresholds \cup {t + AreaSizeStep : t \in Thresholds} :
        AreaSizeMin <= a /\ a <= AreaSizeMax}

\* None as a value of use_area_ja (a string that is no key of the table)
NoUseArea == "None"

\* what the zoning lookup can return: a category of the table, a label the
\* table does not list, or None
UseAreas == DOMAIN permissions \cup {"denen_jukyo", NoUseArea}

NoFactors == MarketFactors("unset", <<>>, RatInt(0))

NoCall == [fn |-> "none"]

NoRet == Returned(RatInt(0))

Message(kind, text, name) == [kind |-> kind, text |-> text, name |-> name]

FlowInit ==
    /\ pc = "idle"
    /\ addr_kamakura = TRUE
    /\ initial_investment = InvestmentDefault
    /\ area_size = AreaSizeDefault
    /\ coordinates = None
    /\ use_area_ja = NoUseArea
    /\ allowed_buildings = <<>>
    /\ population = None
    /\ distance = 0
    /\ market_factors = NoFactors
    /\ results = <<>>
    /\ loop_i = 0
    /\ best_profit = 0
    /\ best_payback = 0
    /\ messages = <<>>
    /\ exception = "none"

Init == FlowInit /\ call = NoCall /\ ret = NoRet

\* the user edits the widgets of lines 194-197
SetInputs ==
    /\ pc = "idle"
    /\ addr_kamakura' \in BOOLEAN
    /\ initial_investment' \in Investments
    /\ area_size' \in AreaSizes
    /\ UNCHANGED <<pc, coordinates, use_area_ja, allowed_buildings, population,
                   distance, market_factors, results, loop_i, best_profit,
                   best_payback, messages, exception, call, ret>>

\* lines 201-206: the button is pressed and the address geocoded
Geocode ==
    /\ pc = "idle"
    /\ \E c \in {None, <<"lng_lat">>} :
         /\ coordinates' = c
         /\ IF c = None
            THEN /\ messages' = Append(messages,
                                   Message("error", "geocode", "none"))
                 /\ pc' = "stopped"
            ELSE /\ messages' = messages
                 /\ pc' = "zoning"
    /\ UNCHANGED <<addr_kamakura, initial_investment, area_size, use_area_ja,
                   allowed_buildings, population, distance, market_factors,
                   results, loop_i, best_profit, best_payback, exception,
                   call, ret>>

\* lines 208-217
LookupZoning ==
    /\ pc = "zoning"
    /\ use_area_ja' \in UseAreas
    /\ pc' = "permissions"
    /\ UNCHANGED <<addr_kamakura, initial_investment, area_size, coordinates,
                   allowed_buildings, population, distance, market_factors,
                   results, loop_i, best_profit, best_payback, messages,
                   exception, call, ret>>

\* lines 221-222
CheckPermissions ==
    /\ pc = "permissions"
    /\ allowed_buildings' = check_building_permissions(use_area_ja, area_size)
    /\ pc' = "population"
    /\ UNCHANGED <<addr_kamakura, initial_investment, area_size, coordinates,
                   use_area_ja, population, distance, market_factors, results,
                   loop_i, best_profit, best_payback, messages, exception,
                   call, ret>>

\* line 225
LookupPopulation ==
    /\ pc = "population"
    /\ population' \in {None} \cup {Num(p) : p \in Populations}
    /\ pc' = "distance"
    /\ UNCHANGED <<addr_kamakura, initial_investment, area_size, coordinates,
                   use_area_ja, allowed_buildings, distance, market_factors,
                   results, loop_i, best_profit, best_payback, messages,
                   exception, call, ret>>

\* lines 228-303
LookupDistance ==
    /\ pc = "distance"
    /\ distance' \in Distances
    /\ market_factors' =
           MarketFactors(area_type_of(addr_kamakura),
                         << <<"population", population>>,
                            <<"distance_from_station", Num(distance')>> >>,
                         Dec(FlowEpsilon))
    /\ results' = <<>>
    /\ loop_i' = 1
    /\ pc' = "score"
    /\ UNCHANGED <<addr_kamakura, initial_investment, area_size, coordinates,
                   use_area_ja, allowed_buildings, population, best_profit,
                   best_payback, messages, exception, call, ret>>

\* lines 304-306: one pass of the loop body
ScoreBusiness ==
    /\ pc = "score"
    /\ loop_i <= Len(allowed_buildings)
    /\ LET name == allowed_buildings[loop_i]
           market_score == calculate(market_factors, name)
           catalog == businesses(initial_investment)
       IN  IF market_score.exc # "none"
           THEN /\ exception' = market_score.exc
                /\ pc' = "raised"
                /\ UNCHANGED <<results, loop_i>>
           ELSE IF name \notin DOMAIN catalog
           THEN /\ exception' = "KeyError"
                /\ pc' = "raised"
                /\ UNCHANGED <<results, loop_i>>
           ELSE /\ results' = Append(results,
                                  summary_dict(catalog[name], market_score.val))
                /\ loop_i' = loop_i + 1
                /\ UNCHANGED <<pc, exception>>
    /\ UNCHANGED <<addr_kamakura, initial_investment, area_size, coordinates,
                   use_area_ja, allowed_buildings, population, distance,
                   market_factors, best_profit, best_payback, messages,
                   call, ret>>

\* lines 309-310: max() and min() raise ValueError on an empty list
SelectBest ==
    /\ pc = "score"
    /\ loop_i > Len(allowed_buildings)
    /\ IF results = <<>>
       THEN /\ exception' = "ValueError"
            /\ pc' = "raised"
            /\ UNCHANGED <<best_profit, best_payback>>
       ELSE /\ best_profit' = max_by_profit(results)
            /\ best_payback' = min_by_payback(results)
            /\ pc' = "recommend"
            /\ UNCHANGED exception
    /\ UNCHANGED <<addr_kamakura, initial_investment, area_size, coordinates,
                   use_area_ja, allowed_buildings, population, distance,
                   market_factors, results, loop_i, messages, call, ret>>

\* lines 313-333
Recommend ==
    /\ pc = "recommend"
    /\ messages' =
         IF same_dict(results[best_profit], results[best_payback])
         THEN Append(messages,
                     Message("success", "osusume", results[best_profit].name))
         ELSE messages \o
              << Message("success", "shuekiritsu", results[best_profit].name),
                 Message("warning", "kaishu_kikan", results[best_payback].name) >>
    /\ pc' = "done"
    /\ UNCHANGED <<addr_kamakura, initial_investment, area_size, coordinates,
                   use_area_ja, allowed_buildings, population, distance,
                   market_factors, results, loop_i, best_profit, best_payback,
                   exception, call, ret>>

\* the run is over: st.stop(), an uncaught exception, or the end of the script
Ended == pc \in {"stopped", "raised", "done"}

\* any later interaction runs the script again from the top, widgets kept
Rerun ==
    /\ Ended
    /\ pc' = "idle"
    /\ coordinates' = None
    /\ use_area_ja' = NoUseArea
    /\ allowed_buildings' = <<>>
    /\ population' = None
    /\ distance' = 0
    /\ market_factors' = NoFactors
    /\ results' = <<>>
    /\ loop_i' = 0
    /\ best_profit' = 0
    /\ best_payback' = 0
    /\ messages' = <<>>
    /\ exception' = "none"
    /\ UNCHANGED <<addr_kamakura, initial_investment, area_size, call, ret>>

Next ==
    \/ SetInputs
    \/ Geocode
    \/ LookupZoning
    \/ CheckPermissions
    \/ LookupPopulation
    \/ LookupDistance
    \/ ScoreBusiness
    \/ SelectBest
    \/ Recommend
    \/ Rerun

Spec == Init /\ [][Next]_vars

---------------------------------------------------------------------------
(* Direct calls of MarketPotentialCalculator: the arguments are drawn from  *)
(* bounded sets, configured and not                                         *)

MaxHalfSteps == 3

\* the configured reference maxima
References ==
    {FACTOR_RANGES[a][f] : a \in DOMAIN FACTOR_RANGES,
                           f \in {"population", "distance_from_station"}}

\* raw factor values: 0 and the multiples of half of each reference
ValueSamples == {(k * m) \div 2 : k \in 0..MaxHalfSteps, m \in References}

\* "yokosuka" is no key of WEIGHTS / FACTOR_RANGES
AreaTypes == DOMAIN WEIGHTS \cup {"yokosuka"}

\* "coworking" has no weights in any area
BusinessTypes == {"cafe", "shareAtelier", "accommodation", "coworking"}

\* "tourist" and "household_income" have no reference maximum and no weight
FactorNames ==
    {"population", "distance_from_station", "tourist", "household_income"}

Epsilons == {RatInt(0), Dec(FlowEpsilon)}

\* the factors dicts: the pair the button handler builds, every single factor,
\* and the empty dict
FactorDicts ==
    {<< <<"population", Num(p)>>, <<"distance_from_station", Num(d)>> >> :
         p \in ValueSamples, d \in ValueSamples}
    \cup {<< <<f, Num(v)>> >> : f \in FactorNames, v \in ValueSamples}
    \cup {<<>>}

CallNormalize ==
    /\ call = NoCall
    /\ \E a \in AreaTypes, f \in FactorNames, v \in ValueSamples :
         /\ call' = [fn |-> "_normalize_factor", area_type |-> a,
                     factor_name |-> f, value |-> v]
         /\ ret' = normalize_factor(a, f, Num(v))
    /\ UNCHANGED flow_vars

CallCalculate ==
    /\ call = NoCall
    /\ \E a \in AreaTypes, b \in BusinessTypes, e \in Epsilons,
          fs \in FactorDicts :
         /\ call' = [fn |-> "calculate", factors |-> MarketFactors(a, fs, e),
                     business_type |-> b]
         /\ ret' = calculate(MarketFactors(a, fs, e), b)
    /\ UNCHANGED flow_vars

\* the call is over; another may follow
ReturnFromCall ==
    /\ call # NoCall
    /\ call' = NoCall
    /\ ret' = NoRet
    /\ UNCHANGED flow_vars

NextCalc == CallNormalize \/ CallCalculate \/ ReturnFromCall

SpecCalc == Init /\ [][NextCalc]_vars

---------------------------------------------------------------------------
(* Direct calls of Business: small businesses with non-negative fields      *)

MaxUsers == 3

MaxPriceSteps == 1

MaxOtherRevenue == 1

MaxCostSteps == 2

MaxInvestmentSteps == 2

CostAmounts == {10 * k : k \in 0..MaxCostSteps}

\* costs dicts with no, one or two entries
CostDicts ==
    {<<>>}
    \cup {<< <<"jinkenhi", x>> >> : x \in CostAmounts}
    \cup {<< <<"jinkenhi", x>>, <<"chidai_yachin", y>> >> :
              x \in CostAmounts, y \in CostAmounts}

SampleBusinesses ==
    {Business("b", 100 * i, u, 10 * p, o, c) :
        i \in 1..MaxInvestmentSteps, u \in 0..MaxUsers, p \in 0..MaxPriceSteps,
        o \in 0..MaxOtherRevenue, c \in CostDicts}

\* market scores: 0, the offset of the button handler, 1.0 and 1.05
MarketScores == {RatInt(0), Dec(FlowEpsilon), RatInt(1), Dec(105)}

CallSummary ==
    /\ call = NoCall
    /\ \E b \in SampleBusinesses, m \in MarketScores :
         /\ call' = [fn |-> "summary_dict", self |-> b, market_score |-> m]
         /\ ret' = Returned(summary_dict(b, m))
    /\ UNCHANGED flow_vars

NextBiz == CallSummary \/ ReturnFromCall

SpecBiz == Init /\ [][NextBiz]_vars

---------------------------------------------------------------------------
(* Properties *)

\* the lookups that have returned nothing in the current run
GeocodeMiss == pc # "idle" /\ coordinates = None

ZoningMiss ==
    pc \in {"permissions", "population", "distance", "score", "recommend",
            "done", "raised"} /\ use_area_ja = NoUseArea

PopulationMiss ==
    pc \in {"distance", "score", "recommend", "done", "raised"}
    /\ population = None

\* C1: once the geocode, zoning or population lookup of a run has returned
\* nothing, no exception is raised, nothing is scored or selected, and the run
\* can only end stopped with the one error message shown.
C1_LookupMissStopsRun ==
    (GeocodeMiss \/ ZoningMiss \/ PopulationMiss) =>
        /\ exception = "none"
        /\ results = <<>>
        /\ best_profit = 0 /\ best_payback = 0
        /\ Ended => /\ pc = "stopped"
                    /\ Len(messages) = 1
                    /\ messages[1].kind = "error"

\* the normalisation the contract states for a raw value v >= 0 and a
\* reference maximum m > 0
ContractNormalized(f, v, m) ==
    IF f = "distance_from_station"
    THEN IF v < m THEN Rat(m - v, m) ELSE RatInt(0)
    ELSE IF v < m THEN Rat(v, m) ELSE RatInt(1)

\* what one factor contributes when it is configured, and 0 when it is not
ConfiguredContribution(a, b, f, v) ==
    IF /\ a \in DOMAIN WEIGHTS /\ a \in DOMAIN FACTOR_RANGES
       /\ b \in DOMAIN WEIGHTS[a]
       /\ f \in DOMAIN WEIGHTS[a][b]
       /\ f \in DOMAIN FACTOR_RANGES[a]
    THEN RatMul(WEIGHTS[a][b][f],
                ContractNormalized(f, v, FACTOR_RANGES[a][f]))
    ELSE RatInt(0)

RECURSIVE ConfiguredSum(_, _, _, _)
ConfiguredSum(a, b, items, k) ==
    IF k > Len(items) THEN RatInt(0)
    ELSE RatAdd(ConfiguredContribution(a, b, items[k][1], items[k][2][1]),
                ConfiguredSum(a, b, items, k + 1))

\* C2: calculate never raises, whatever the area type, the business type and
\* the factor names: it returns epsilon plus the contributions of the
\* configured factors, an unconfigured one contributing 0.
C2_CalculateNeverFails ==
    call.fn = "calculate" =>
        /\ ret.exc = "none"
        /\ ret.val = RatAdd(call.factors.epsilon,
                            ConfiguredSum(call.factors.area_type,
                                          call.business_type,
                                          call.factors.factors, 1))

\* C3: summary_dict reports an infinite payback period whenever the monthly
\* profit is zero or negative, a finite one only for a positive profit, and
\* never a negative one.
C3_PaybackInfiniteWithoutProfit ==
    call.fn = "summary_dict" =>
        LET r == ret.val
        IN  /\ r.gekkan_rieki <= 0 => r.kaishu_kikan.inf
            /\ ~r.kaishu_kikan.inf => r.gekkan_rieki > 0
            /\ ~r.kaishu_kikan.neg

\* a < b on rationals, by integer parts and then the reciprocals of the
\* fractional parts, so that no product is formed
RECURSIVE RatLessByParts(_, _)
RatLessByParts(a, b) ==
    LET ia == a[1] \div a[2]
        ib == b[1] \div b[2]
        ra == a[1] % a[2]
        rb == b[1] % b[2]
    IN  IF ia # ib THEN ia < ib
        ELSE IF ra = 0 THEN rb > 0
        ELSE IF rb = 0 THEN FALSE
        ELSE RatLessByParts(<<b[2], rb>>, <<a[2], ra>>)

\* a < b on floats that may be infinite, compared exactly
ExactLess(a, b) == ~a.inf /\ (b.inf \/ RatLessByParts(a.q, b.q))

\* the profit ratio and the payback period of a record before formatting
RatioOf(r) == profit_ratio_of(r.gekkan_rieki, r.gekkan_keihi)

PaybackOf(r) == payback_period_of(r.shoki_toshigaku, r.gekkan_rieki)

\* C4: the record selected as best_profit has the largest profit ratio of all
\* records and is the earliest with it; the record selected as best_payback
\* has the smallest payback period and is the earliest with it.
C4_BestRecordsAreExtreme ==
    pc \in {"recommend", "done"} =>
        \A i \in 1..Len(results) :
            /\ ~ExactLess(RatioOf(results[best_profit]), RatioOf(results[i]))
            /\ i < best_profit =>
                   ExactLess(RatioOf(results[i]), RatioOf(results[best_profit]))
            /\ ~ExactLess(PaybackOf(results[i]), PaybackOf(results[best_payback]))
            /\ i < best_payback =>
                   ExactLess(PaybackOf(results[best_payback]), PaybackOf(results[i]))

\* C5: for a configured area type and a factor with a reference maximum, the
\* normalised value of v >= 0 lies in [0, 1]; it is min(1, v / max) for a
\* factor other than the distance, and for the distance it is 1 at 0, 0 from
\* the maximum on, and no larger for a larger v.
C5_NormalizedInUnitInterval ==
    ( /\ call.fn = "_normalize_factor"
      /\ call.area_type \in DOMAIN FACTOR_RANGES
      /\ call.factor_name \in DOMAIN FACTOR_RANGES[call.area_type] ) =>
        LET a == call.area_type
            f == call.factor_name
            v == call.value
            m == FACTOR_RANGES[a][f]
        IN  /\ ret.exc = "none"
            /\ RatLeq(RatInt(0), ret.val) /\ RatLeq(ret.val, RatInt(1))
            /\ IF f = "distance_from_station"
               THEN /\ v = 0 => ret.val = RatInt(1)
                    /\ v >= m => ret.val = RatInt(0)
                    /\ \A w \in ValueSamples :
                         w >= v =>
                           RatLeq(normalize_factor(a, f, Num(w)).val, ret.val)
               ELSE ret.val = (IF v >= m THEN RatInt(1) ELSE Rat(v, m))

C5_Witness ==
    /\ call.fn = "_normalize_factor"
    /\ call.area_type = "kamakura"
    /\ call.factor_name = "distance_from_station"
    /\ call.value = 1600
    /\ ret = Returned(<<1, 2>>)

\* the order of the business types in every row of the table
TableOrder == <<"cafe", "shareAtelier", "accommodation">>

PositionOf(b) == CHOOSE i \in 1..Len(TableOrder) : TableOrder[i] = b

\* C6: the permitted list holds exactly the business types whose maximum for
\* the category is at least the floor area (equality permits), in table
\* order, and is empty for a category the table does not list or for None.
C6_PermissionsInclusive ==
    pc \in {"population", "distance", "score", "recommend", "done", "raised"} =>
        /\ \A i \in 1..Len(TableOrder) :
             (\E j \in 1..Len(allowed_buildings) :
                  allowed_buildings[j] = TableOrder[i])
             <=> /\ use_area_ja \in DOMAIN permissions
                 /\ \/ permissions[use_area_ja][i][2] = inf
                    \/ area_size <= permissions[use_area_ja][i][2]
        /\ \A j \in 1..Len(allowed_buildings) :
             /\ \E i \in 1..Len(TableOrder) : allowed_buildings[j] = TableOrder[i]
             /\ \A k \in 1..Len(allowed_buildings) :
                  j < k => PositionOf(allowed_buildings[j])
                             < PositionOf(allowed_buildings[k])
        /\ use_area_ja \notin DOMAIN permissions => allowed_buildings = <<>>

C6_Witness ==
    /\ pc = "population"
    /\ use_area_ja = "dai1shu_jukyo"
    /\ area_size = 3000
    /\ allowed_buildings = TableOrder

\* C7: the monthly revenue summary_dict takes from calc_monthly_revenue is
\* floor(users * unit_price * market_score + other_revenue), and its monthly
\* profit is that revenue minus the sum of all the costs.
C7_RevenueIsFloor ==
    call.fn = "summary_dict" =>
        LET b == call.self
            n == call.market_score[1]
            d == call.market_score[2]
            x == b.users * b.unit_price * n + b.other_revenue * d
            revenue == ret.val.gekkan_uriage
        IN  /\ revenue * d <= x /\ x < (revenue + 1) * d
            /\ ret.val.gekkan_rieki =
                 revenue - ( (IF Len(b.costs) >= 1 THEN b.costs[1][2] ELSE 0)
                           + (IF Len(b.costs) >= 2 THEN b.costs[2][2] ELSE 0) )

C7_Witness ==
    /\ call.fn = "summary_dict"
    /\ call.self.users = 3 /\ call.self.unit_price = 10
    /\ call.self.other_revenue = 0
    /\ call.market_score = Dec(105)
    /\ call.self.costs = << <<"jinkenhi", 20>>, <<"chidai_yachin", 10>> >>
    /\ ret.val.gekkan_uriage = 31
    /\ ret.val.gekkan_rieki = 1

\* C8: when the run has shown its recommendation, one message was shown if
\* and only if best_profit and best_payback are the same record; otherwise
\* two were shown, the profit-ratio winner first and the payback winner
\* second, and they are different records.
C8_OneMessageIffSameRecord ==
    pc = "done" =>
        /\ Len(messages) = 1 <=> best_profit = best_payback
        /\ Len(messages) = 1 =>
             /\ messages[1].text = "osusume"
             /\ messages[1].name = results[best_profit].name
        /\ Len(messages) # 1 =>
             /\ Len(messages) = 2
             /\ messages[1].text = "shuekiritsu"
             /\ messages[1].name = results[best_profit].name
             /\ messages[2].text = "kaishu_kikan"
             /\ messages[2].name = results[best_payback].name
             /\ results[best_profit] # results[best_payback]
             /\ messages[1].name # messages[2].name

C8_Witness ==
    /\ pc = "done"
    /\ Len(messages) = 2
    /\ best_profit # best_payback

\* C9: for a configured area type and business type and non-negative
\* population and distance, the score lies between epsilon and epsilon plus
\* the two weights; with the epsilon of the button handler and its two area
\* types it lies in [0.5, 1.1], and is 1.1 only for kamakura / cafe with a
\* population of at least 5000 at distance 0.
C9_ScoreBounded ==
    ( /\ call.fn = "calculate"
      /\ call.factors.area_type \in DOMAIN WEIGHTS
      /\ call.business_type \in DOMAIN WEIGHTS[call.factors.area_type]
      /\ Len(call.factors.factors) = 2 ) =>
        LET a == call.factors.area_type
            b == call.business_type
            eps == call.factors.epsilon
            p == call.factors.factors[1][2][1]
            d == call.factors.factors[2][2][1]
            top == RatAdd(eps, RatAdd(WEIGHTS[a][b]["population"],
                                      WEIGHTS[a][b]["distance_from_station"]))
        IN  /\ ret.exc = "none"
            /\ RatLeq(eps, ret.val) /\ RatLeq(ret.val, top)
            /\ (eps = Dec(FlowEpsilon) /\ a \in {"kamakura", "hayama"}) =>
                 /\ RatLeq(Dec(50), ret.val) /\ RatLeq(ret.val, Dec(110))
                 /\ ret.val = Dec(110) <=>
                      (a = "kamakura" /\ b = "cafe" /\ p >= 5000 /\ d = 0)

C9_Witness ==
    /\ call.fn = "calculate"
    /\ call.factors.area_type = "kamakura"
    /\ call.business_type = "cafe"
    /\ call.factors.epsilon = Dec(FlowEpsilon)
    /\ Len(call.factors.factors) = 2
    /\ call.factors.factors[1][2][1] > 5000
    /\ ret = Returned(Dec(110))

===========================================================================
